---- MODULE Spec2Model ----
(***************************************************************************)
(* ZebrafyPDF (zebrafy/zebrafy_pdf.py): the multi-page driver that turns   *)
(* the pages of a PDF into ZPL graphic fields.                             *)
(*                                                                         *)
(* A string is a sequence of tokens.  "^XA\n" is the two tokens ^XA, LF;   *)
(* a graphic field is one token that carries the page image and every      *)
(* setting the page encoder was given.                                     *)
(* An optional constructor argument is a set: {} is Python's None and {v}  *)
(* is the value v.                                                         *)
(***************************************************************************)
EXTENDS Integers, Sequences, FiniteSets, TLC

VARIABLES document, given, objects, calls

vars == <<document, given, objects, calls>>

(***************************************************************************)
(* Bounds of the exploration.                                              *)
(***************************************************************************)
MaxPages == 2
MaxCalls == 2

ObjectIds == {1, 2}

PageContents == {"P", "Q", "unrenderable"}

None == {}
Some(v) == {v}
Value(opt) == CHOOSE v \in opt : TRUE

RECURSIVE SeqsUpTo(_, _)
SeqsUpTo(S, n) ==
    IF n = 0 THEN {<<>>}
    ELSE LET shorter == SeqsUpTo(S, n - 1)
         IN shorter \cup {Append(s, x) : s \in {t \in shorter : Len(t) = n - 1}, x \in S}

(* The PDF bytes handed to the constructors: unreadable bytes, or a        *)
(* document of 0..MaxPages pages.                                          *)
Documents ==
    {[readable |-> FALSE, pages |-> <<>>]}
        \cup {[readable |-> TRUE, pages |-> p] : p \in SeqsUpTo(PageContents, MaxPages)}

(***************************************************************************)
(* Constructor arguments.                                                  *)
(***************************************************************************)
CompressionLetters == {"a", "A", "b", "B", "c", "C", "d", "D"}
ThresholdValues == {-1, 0, 256}
SizeValues == {-1, 0, 1}

AllNone ==
    [compression_type |-> None, invert |-> None, dither |-> None,
     threshold |-> None, width |-> None, height |-> None,
     pos_x |-> None, pos_y |-> None, complete_zpl |-> None]

(* a with at most one option changed, to None or to a value *)
Variations(a) ==
    {[a EXCEPT !.compression_type = v] : v \in {None} \cup {Some(x) : x \in CompressionLetters}}
        \cup {[a EXCEPT !.invert = v] : v \in {None, Some(FALSE), Some(TRUE)}}
        \cup {[a EXCEPT !.dither = v] : v \in {None, Some(FALSE), Some(TRUE)}}
        \cup {[a EXCEPT !.threshold = v] : v \in {None} \cup {Some(x) : x \in ThresholdValues}}
        \cup {[a EXCEPT !.width = v] : v \in {None} \cup {Some(x) : x \in SizeValues}}
        \cup {[a EXCEPT !.height = v] : v \in {None} \cup {Some(x) : x \in SizeValues}}
        \cup {[a EXCEPT !.pos_x = v] : v \in {None} \cup {Some(x) : x \in SizeValues}}
        \cup {[a EXCEPT !.pos_y = v] : v \in {None} \cup {Some(x) : x \in SizeValues}}
        \cup {[a EXCEPT !.complete_zpl = v] : v \in {None, Some(FALSE), Some(TRUE)}}

(***************************************************************************)
(* ZebrafyPDF.__init__                                                     *)
(***************************************************************************)
default_compression_type == "a"
default_invert == FALSE
default_dither_off == FALSE
default_dither == TRUE
default_threshold == 128
default_width == 0
default_height == 0
default_pos_x == 0
default_pos_y == 0
default_complete_zpl == TRUE

Verbatim(s) == s

(* str.upper() on the letters of CompressionLetters *)
Upper(s) ==
    CASE s = "a" -> "A"
      [] s = "b" -> "B"
      [] s = "c" -> "C"
      [] s = "d" -> "D"
      [] OTHER -> s

(* x = x or d *)
OrDefaultFalsy(x, d) ==
    IF x = None \/ ToString(Value(x)) \in {"FALSE", "0"} THEN d ELSE Value(x)

(* if x is None: x = d *)
OrDefault(x, d) == IF x = None THEN d ELSE Value(x)

__init__(pdf_bytes, args) ==
    [pdf_bytes |-> pdf_bytes,
     compression_type |-> Upper(OrDefault(args.compression_type, default_compression_type)),
     invert |-> OrDefault(args.invert, default_invert),
     dither |-> OrDefault(args.dither, default_dither),
     threshold |-> OrDefault(args.threshold, default_threshold),
     width |-> OrDefault(args.width, default_width),
     height |-> OrDefault(args.height, default_height),
     pos_x |-> OrDefault(args.pos_x, default_pos_x),
     pos_y |-> OrDefault(args.pos_y, default_pos_y),
     complete_zpl |-> OrDefault(args.complete_zpl, default_complete_zpl)]

(***************************************************************************)
(* Outcomes of a call: a returned value or a raised exception.             *)
(***************************************************************************)
Return(v) == [kind |-> "return", value |-> v]
Raise(e) == [kind |-> "raise", error |-> e]

(***************************************************************************)
(* The rasterizer (pypdfium2).                                             *)
(***************************************************************************)
PdfDocument(pdf_bytes) ==
    IF pdf_bytes.readable THEN Return(pdf_bytes.pages) ELSE Raise("SourceDecodeError")

(* page.render(scale=1, rotation=0).to_pil() *)
render(page) ==
    IF page = "unrenderable" THEN Raise("SourceDecodeError") ELSE Return([pixels |-> page])

(***************************************************************************)
(* The page encoder, ZebrafyImage (zebrafy/zebrafy_image.py).              *)
(***************************************************************************)
LF == [tok |-> "LF"]
LabelStart == <<[tok |-> "^XA"], LF>>
LabelEnd == <<[tok |-> "^XZ"], LF>>

(* the encoder's own case-insensitive selection of the mode *)
Mode(compression_type) ==
    CASE compression_type \in {"a", "A"} -> "A"
      [] compression_type \in {"b", "B"} -> "B"
      [] compression_type \in {"c", "C"} -> "C"
      [] OTHER -> "unrecognized"

ValidSettings(s) ==
    /\ Mode(s.compression_type) \in {"A", "B", "C"}
    /\ s.threshold \in 0..255
    /\ s.width >= 0
    /\ s.height >= 0
    /\ s.pos_x >= 0
    /\ s.pos_y >= 0

GraphicField(image, s) ==
    [tok |-> "^GF", image |-> image, compression_type |-> Mode(s.compression_type),
     invert |-> s.invert, dither |-> s.dither, threshold |-> s.threshold,
     width |-> s.width, height |-> s.height, pos_x |-> s.pos_x, pos_y |-> s.pos_y]

ZebrafyImage_to_zpl(image, s) ==
    IF ~ValidSettings(s) THEN Raise("InvalidConfiguration")
    ELSE IF s.complete_zpl
         THEN Return(LabelStart \o <<GraphicField(image, s)>> \o <<LF>> \o LabelEnd)
         ELSE Return(<<GraphicField(image, s)>>)

(***************************************************************************)
(* ZebrafyPDF.to_zpl                                                       *)
(***************************************************************************)
GraphicFields(zpl) == SelectSeq(zpl, LAMBDA t : t.tok = "^GF")

CallsOf(o) == {calls[o][n] : n \in DOMAIN calls[o]}
AllCalls == UNION {CallsOf(o) : o \in DOMAIN calls}
TotalCalls == Cardinality(UNION {{<<o, n>> : n \in DOMAIN calls[o]} : o \in DOMAIN calls})

(* graphic_fields kept from an earlier call *)
graphic_fields_left_over ==
    LET earlier == {c \in AllCalls : c.outcome.kind = "return"}
    IN IF earlier = {} THEN <<>>
       ELSE GraphicFields((CHOOSE c \in earlier : TRUE).outcome.value)

(* graphic_fields = "" *)
graphic_fields_initial == <<>>

PageCompleteZplOfDriver(self) == self.complete_zpl

(* the complete_zpl argument of every page's ZebrafyImage *)
PageCompleteZpl(self) == FALSE

PageSettings(self) ==
    [compression_type |-> self.compression_type, invert |-> self.invert,
     dither |-> self.dither, threshold |-> self.threshold,
     width |-> self.width, height |-> self.height,
     pos_x |-> self.pos_x, pos_y |-> self.pos_y,
     complete_zpl |-> PageCompleteZpl(self)]

AccumulateInFront(graphic_fields, zpl) == zpl \o <<LF>> \o graphic_fields

(* graphic_fields += zebrafy_image.to_zpl() + "\n" *)
Accumulate(graphic_fields, zpl) == graphic_fields \o zpl \o <<LF>>

EnvelopeAlways(self, graphic_fields) ==
    Return(LabelStart \o graphic_fields \o LabelEnd)

(* the two return statements *)
Envelope(self, graphic_fields) ==
    IF self.complete_zpl
    THEN Return(LabelStart \o graphic_fields \o LabelEnd)
    ELSE Return(graphic_fields)

Swallow(exception, graphic_fields) == Return(graphic_fields)

(* to_zpl catches nothing: an exception of a callee leaves to_zpl at once *)
(* and the local graphic_fields is dropped.                               *)
Propagate(exception, graphic_fields) == Raise(exception.error)

(* for page in pdf: ..., from page i on.  events is the log of the calls  *)
(* made to the rasterizer and to the page encoder.                        *)
RECURSIVE PageLoop(_, _, _, _, _)
PageLoop(self, pdf, i, graphic_fields, events) ==
    IF i > Len(pdf)
    THEN [outcome |-> Envelope(self, graphic_fields), events |-> events]
    ELSE LET rendered == Append(events, [op |-> "render", page |-> i])
             pil_image == render(pdf[i])
         IN IF pil_image.kind = "raise"
            THEN [outcome |-> Propagate(pil_image, graphic_fields), events |-> rendered]
            ELSE LET settings == PageSettings(self)
                     encoded == Append(rendered,
                                       [op |-> "encode", page |-> i, settings |-> settings])
                     zpl == ZebrafyImage_to_zpl(pil_image.value, settings)
                 IN IF zpl.kind = "raise"
                    THEN [outcome |-> Propagate(zpl, graphic_fields), events |-> encoded]
                    ELSE PageLoop(self, pdf, i + 1,
                                  Accumulate(graphic_fields, zpl.value), encoded)

to_zpl(self) ==
    LET opened == <<[op |-> "open"]>>
        pdf == PdfDocument(self.pdf_bytes)
    IN IF pdf.kind = "raise"
       THEN [outcome |-> Propagate(pdf, graphic_fields_initial), events |-> opened]
       ELSE PageLoop(self, pdf.value, 1, graphic_fields_initial, opened)

(***************************************************************************)
(* The state machine: objects are constructed over the document and their *)
(* to_zpl is called, one synchronous call at a time.                       *)
(***************************************************************************)
Init ==
    /\ document \in Documents
    /\ given = <<>>
    /\ objects = <<>>
    /\ calls = <<>>

(* ZebrafyPDF(document, **args).  A second object is built from the first *)
(* one's arguments with at most one option changed.                       *)
New(args) ==
    /\ Len(objects) < Cardinality(ObjectIds)
    /\ args \in (IF given = <<>> THEN Variations(AllNone) ELSE Variations(given[1]))
    /\ given' = Append(given, args)
    /\ objects' = Append(objects, __init__(document, args))
    /\ calls' = Append(calls, <<>>)
    /\ UNCHANGED document

ToZpl(o) ==
    /\ o \in DOMAIN objects
    /\ TotalCalls < MaxCalls
    /\ calls' = [calls EXCEPT ![o] = Append(@, to_zpl(objects[o]))]
    /\ UNCHANGED <<document, given, objects>>

Construct == \E args \in UNION {Variations(a) : a \in Variations(AllNone)} : New(args)
Convert == \E o \in ObjectIds : ToZpl(o)

Next == Construct \/ Convert

Spec == Init /\ [][Next]_vars

(***************************************************************************)
(* Properties.                                                             *)
(***************************************************************************)
Returned(c) == c.outcome.kind = "return"
Raised(c) == c.outcome.kind = "raise"
Events(c, op) == SelectSeq(c.events, LAMBDA e : e.op = op)
Markers(zpl) == SelectSeq(zpl, LAMBDA t : t.tok \in {"^XA", "^XZ"})

(* what the document's pages are to give: one graphic field and one line *)
(* break per page, from the first page to the last                       *)
RECURSIVE Fragments(_, _)
Fragments(self, pages) ==
    IF pages = <<>> THEN <<>>
    ELSE <<GraphicField([pixels |-> Head(pages)], self), LF>> \o Fragments(self, Tail(pages))

(* C1: whenever to_zpl returns, the graphic fields of its output are, in    *)
(* this order, the fields of page 1, page 2, ..., page n of the document:  *)
(* one per page, none skipped, none twice.                                 *)
C1_PageOrder ==
    \A c \in AllCalls :
        Returned(c) =>
            LET fields == GraphicFields(c.outcome.value)
            IN /\ Len(fields) = Len(document.pages)
               /\ \A i \in 1..Len(fields) : fields[i].image = [pixels |-> document.pages[i]]

C1_Witness ==
    \E c \in AllCalls :
        /\ Returned(c)
        /\ Len(document.pages) >= 2
        /\ document.pages[1] # document.pages[2]

(* C2: with complete_zpl set, whatever to_zpl returns is ^XA LF, then each *)
(* page's graphic field followed by a line break, then ^XZ LF, for any     *)
(* number of pages; and every page is encoded with complete_zpl=False,     *)
(* whatever the object's own complete_zpl is.                              *)
C2_EnvelopeOnce ==
    \A o \in DOMAIN objects : \A c \in CallsOf(o) :
        /\ \A i \in DOMAIN c.events :
               c.events[i].op = "encode" => c.events[i].settings.complete_zpl = FALSE
        /\ (objects[o].complete_zpl /\ Returned(c)) =>
               c.outcome.value
                   = <<[tok |-> "^XA"], LF>>
                         \o Fragments(objects[o], document.pages)
                         \o <<[tok |-> "^XZ"], LF>>

C2_Witness ==
    \E o \in DOMAIN objects : \E c \in CallsOf(o) :
        /\ objects[o].complete_zpl
        /\ Returned(c)
        /\ Len(document.pages) = 2

(* C3: with complete_zpl false, to_zpl returns the page fragments alone,   *)
(* with no ^XA and no ^XZ; and for two objects over the same document that *)
(* differ in complete_zpl only, the one returns exactly when the other     *)
(* does and complete = ^XA LF + fragment-only + ^XZ LF.                    *)
C3_FragmentOnly ==
    /\ \A o \in DOMAIN objects : \A c \in CallsOf(o) :
           (~objects[o].complete_zpl /\ Returned(c)) =>
               /\ Markers(c.outcome.value) = <<>>
               /\ c.outcome.value = Fragments(objects[o], document.pages)
    /\ \A o1, o2 \in DOMAIN objects :
           (/\ objects[o1].complete_zpl
            /\ ~objects[o2].complete_zpl
            /\ objects[o1] = [objects[o2] EXCEPT !.complete_zpl = TRUE]) =>
               \A c1 \in CallsOf(o1), c2 \in CallsOf(o2) :
                   /\ Returned(c1) <=> Returned(c2)
                   /\ Returned(c1) =>
                          c1.outcome.value
                              = <<[tok |-> "^XA"], LF>> \o c2.outcome.value
                                    \o <<[tok |-> "^XZ"], LF>>

C3_Witness ==
    \E o1, o2 \in DOMAIN objects :
        /\ objects[o1].complete_zpl
        /\ ~objects[o2].complete_zpl
        /\ objects[o1] = [objects[o2] EXCEPT !.complete_zpl = TRUE]
        /\ \E c1 \in CallsOf(o1), c2 \in CallsOf(o2) :
               /\ Returned(c1)
               /\ Returned(c2)
               /\ GraphicFields(c2.outcome.value) # <<>>

(* C4: an object whose compression_type is none of A, B, C in either case  *)
(* never gets a PDF opened or a page rendered: each of its to_zpl calls    *)
(* ends with InvalidConfiguration and has called neither the rasterizer    *)
(* nor the page encoder.                                                   *)
C4_RejectedBeforeRasterizing ==
    \A o \in DOMAIN objects :
        (/\ given[o].compression_type # None
         /\ Value(given[o].compression_type) \notin {"a", "A", "b", "B", "c", "C"}) =>
            \A c \in CallsOf(o) :
                /\ c.outcome = [kind |-> "raise", error |-> "InvalidConfiguration"]
                /\ c.events = <<>>

(* C5: no object comes out of the constructor with a threshold outside     *)
(* 0..255 or with a negative width, height, pos_x or pos_y.                *)
C5_RejectedAtConstruction ==
    \A o \in DOMAIN objects :
        /\ given[o].threshold # None => Value(given[o].threshold) \in 0..255
        /\ \A f \in {"width", "height", "pos_x", "pos_y"} :
               given[o][f] # None => Value(given[o][f]) >= 0

CasePairs == {<<"a", "A">>, <<"b", "B">>, <<"c", "C">>, <<"d", "D">>}

(* C6: an object constructed with a lower-case letter and one constructed  *)
(* with the same letter in upper case, all else equal, store the same      *)
(* upper-case compression type, hand that type to every page encode, and   *)
(* their to_zpl calls end the same way.                                    *)
C6_CaseInsensitive ==
    \A o1, o2 \in DOMAIN objects : \A p \in CasePairs :
        (/\ given[o1] = [given[o2] EXCEPT !.compression_type = Some(p[1])]
         /\ given[o2].compression_type = Some(p[2])) =>
            /\ objects[o1].compression_type = p[2]
            /\ objects[o2].compression_type = p[2]
            /\ \A c \in CallsOf(o1) \cup CallsOf(o2) : \A i \in DOMAIN c.events :
                   c.events[i].op = "encode" => c.events[i].settings.compression_type = p[2]
            /\ \A c1 \in CallsOf(o1), c2 \in CallsOf(o2) : c1 = c2

C6_Witness ==
    \E o1, o2 \in DOMAIN objects : \E p \in CasePairs :
        /\ given[o1] = [given[o2] EXCEPT !.compression_type = Some(p[1])]
        /\ given[o2].compression_type = Some(p[2])
        /\ \E c1 \in CallsOf(o1), c2 \in CallsOf(o2) :
               /\ Events(c1, "encode") # <<>>
               /\ Events(c2, "encode") # <<>>

DocumentedDefaults ==
    [compression_type |-> "A", invert |-> FALSE, dither |-> TRUE, threshold |-> 128,
     width |-> 0, height |-> 0, pos_x |-> 0, pos_y |-> 0, complete_zpl |-> TRUE]

PageOptions ==
    {"compression_type", "invert", "dither", "threshold", "width", "height", "pos_x", "pos_y"}

(* C7: an option that was not given has its documented default in the      *)
(* object, and that default is what every page encode of the object's      *)
(* to_zpl calls gets; the default complete_zpl adds the envelope.          *)
C7_Defaults ==
    \A o \in DOMAIN objects :
        /\ \A f \in PageOptions \cup {"complete_zpl"} :
               given[o][f] = None => objects[o][f] = DocumentedDefaults[f]
        /\ \A c \in CallsOf(o) :
               /\ \A i \in DOMAIN c.events : \A f \in PageOptions :
                      (c.events[i].op = "encode" /\ given[o][f] = None) =>
                          c.events[i].settings[f] = DocumentedDefaults[f]
               /\ (given[o].complete_zpl = None /\ Returned(c)) =>
                      Markers(c.outcome.value) = <<[tok |-> "^XA"], [tok |-> "^XZ"]>>

C7_Witness ==
    \E o \in DOMAIN objects : \E c \in CallsOf(o) :
        /\ \A f \in PageOptions \cup {"complete_zpl"} : given[o][f] = None
        /\ Returned(c)
        /\ Events(c, "encode") # <<>>

C8_SameOutput ==
    \A o1, o2 \in DOMAIN objects :
        objects[o1] = objects[o2] =>
            \A c1 \in CallsOf(o1), c2 \in CallsOf(o2) : c1.outcome = c2.outcome

C8_FieldsKept == \A o \in DOMAIN objects : objects'[o] = objects[o]

PagesOf(events) == [i \in DOMAIN events |-> events[i].page]
Counting(n) == [i \in 1..n |-> i]

Unrenderable(i) == document.pages[i] = "unrenderable"
FailsAt(o, i) == Unrenderable(i) \/ ~ValidSettings(objects[o])

(* C9: a to_zpl call renders and encodes the pages 1, 2, ... once each and *)
(* in order; when the PDF cannot be opened, or page k is the first that    *)
(* cannot be rendered or encoded, the call ends with that error and with   *)
(* no value at all, having touched no page after k.                        *)
C9_NoPartialOutput ==
    \A o \in DOMAIN objects : \A c \in CallsOf(o) :
        LET renders == PagesOf(Events(c, "render"))
            encodes == PagesOf(Events(c, "encode"))
            failing == {i \in DOMAIN document.pages : FailsAt(o, i)}
        IN /\ renders = Counting(Len(renders))
           /\ encodes = Counting(Len(encodes))
           /\ Raised(c) => DOMAIN c.outcome = {"kind", "error"}
           /\ ~document.readable =>
                  /\ c.outcome = [kind |-> "raise", error |-> "SourceDecodeError"]
                  /\ c.events = <<[op |-> "open"]>>
           /\ failing # {} =>
                  LET k == CHOOSE i \in failing : \A j \in failing : i <= j
                  IN /\ Raised(c)
                     /\ c.outcome.error =
                            (IF Unrenderable(k) THEN "SourceDecodeError"
                             ELSE "InvalidConfiguration")
                     /\ Len(renders) = k
                     /\ Len(encodes) = (IF Unrenderable(k) THEN k - 1 ELSE k)
                     /\ c.events[Len(c.events)].page = k

C9_Witness ==
    \E c \in AllCalls :
        /\ Raised(c)
        /\ Len(Events(c, "render")) = 2
        /\ Len(Events(c, "encode")) = 1

(* C10: an option that was given keeps the given value, also when that     *)
(* value is False or 0: it is stored as given and every page encode gets   *)
(* it; complete_zpl=False leaves the envelope out.                         *)
C10_GivenKept ==
    \A o \in DOMAIN objects :
        /\ \A f \in (PageOptions \ {"compression_type"}) \cup {"complete_zpl"} :
               given[o][f] # None => objects[o][f] = Value(given[o][f])
        /\ \A c \in CallsOf(o) :
               /\ \A i \in DOMAIN c.events : \A f \in PageOptions \ {"compression_type"} :
                      (c.events[i].op = "encode" /\ given[o][f] # None) =>
                          c.events[i].settings[f] = Value(given[o][f])
               /\ (given[o].complete_zpl = Some(FALSE) /\ Returned(c)) =>
                      Markers(c.outcome.value) = <<>>

C10_Witness ==
    \E o1, o2 \in DOMAIN objects :
        /\ given[o1].threshold = Some(0)
        /\ given[o1].dither = None
        /\ given[o2].threshold = Some(0)
        /\ given[o2].dither = Some(FALSE)
        /\ \E c1 \in CallsOf(o1), c2 \in CallsOf(o2) :
               /\ Returned(c1) /\ Events(c1, "encode") # <<>>
               /\ Returned(c2) /\ Events(c2, "encode") # <<>>

====
